---- MODULE Spec2Model ----
(***************************************************************************)
(* Binary struct builders of src/index.ts: BinaryStructBuilderV1 (codec    *)
(* synthesised with new Function) and BinaryStructBuilderV2 (codec built   *)
(* from a table of closures), with the DataView accessors they call.       *)
(***************************************************************************)
EXTENDS Integers, Sequences, FiniteSets, TLC

(***************************************************************************)
(* JavaScript numbers.  A finite number is a sign, the binary digits of    *)
(* its integer part (most significant first, no leading 0) and the binary  *)
(* digits of its fraction (no trailing 0), so that values of 2^31 and more *)
(* and float32 values are exact.                                           *)
(***************************************************************************)
Zeros(n) == [i \in 1..n |-> 0]

StripLeading(s) ==
  LET nz == {i \in 1..Len(s) : s[i] = 1}
  IN IF nz = {} THEN <<>>
     ELSE SubSeq(s, CHOOSE i \in nz : \A j \in nz : i <= j, Len(s))

StripTrailing(s) ==
  LET nz == {i \in 1..Len(s) : s[i] = 1}
  IN IF nz = {} THEN <<>>
     ELSE SubSeq(s, 1, CHOOSE i \in nz : \A j \in nz : i >= j)

Reverse(s) == [i \in 1..Len(s) |-> s[Len(s) + 1 - i]]

RECURSIVE BitsToNat(_)
BitsToNat(s) ==
  IF s = <<>> THEN 0 ELSE 2 * BitsToNat(SubSeq(s, 1, Len(s) - 1)) + s[Len(s)]

NatToBits(n, w) == [i \in 1..w |-> (n \div (2 ^ (w - i))) % 2]

Finite(neg, ib, fb) ==
  [kind |-> "number", neg |-> neg, ib |-> StripLeading(ib), fb |-> StripTrailing(fb)]

NaN == [kind |-> "NaN", neg |-> FALSE, ib |-> <<>>, fb |-> <<>>]
Infinity(neg) == [kind |-> "Infinity", neg |-> neg, ib |-> <<>>, fb |-> <<>>]
Undefined == [kind |-> "undefined", neg |-> FALSE, ib |-> <<>>, fb |-> <<>>]

\* ToNumber(value): undefined becomes NaN
ToNumber(v) == IF v.kind = "undefined" THEN NaN ELSE v

\* the bytes (most significant first) of a bit string whose length is a multiple of 8
BytesOfBits(bits) ==
  [k \in 1..(Len(bits) \div 8) |-> BitsToNat(SubSeq(bits, 8 * (k - 1) + 1, 8 * k))]

RECURSIVE BitsOfBytes(_)
BitsOfBytes(bytes) ==
  IF bytes = <<>> THEN <<>>
  ELSE NatToBits(bytes[1], 8) \o BitsOfBytes(Tail(bytes))

\* s + 1 modulo 2^Len(s)
Increment(s) ==
  LET z == {i \in 1..Len(s) : s[i] = 0}
  IN IF z = {} THEN Zeros(Len(s))
     ELSE LET last == CHOOSE i \in z : \A j \in z : i >= j
          IN [i \in 1..Len(s) |-> IF i < last THEN s[i] ELSE IF i = last THEN 1 ELSE 0]

\* ToUintBits as a conversion that clamps to [0, 2^w - 1] instead of wrapping
ToUintBitsClamped(value, w) ==
  LET v == ToNumber(value)
  IN IF v.kind # "number" \/ v.neg THEN Zeros(w)
     ELSE IF Len(v.ib) > w THEN [i \in 1..w |-> 1]
     ELSE Zeros(w - Len(v.ib)) \o v.ib

\* ToUint8 / ToUint16 / ToUint32: truncate towards zero, then modulo 2^w
ToUintBits(value, w) ==
  LET v == ToNumber(value)
      low == IF Len(v.ib) >= w THEN SubSeq(v.ib, Len(v.ib) - w + 1, Len(v.ib))
             ELSE Zeros(w - Len(v.ib)) \o v.ib
  IN IF v.kind # "number" THEN Zeros(w)
     ELSE IF v.neg THEN
       (IF low = Zeros(w) THEN low ELSE Increment([i \in 1..w |-> 1 - low[i]]))
     ELSE low

\* the binary digit of weight 2^p in |v|
BitAt(v, p) ==
  IF p >= 0 THEN (IF p < Len(v.ib) THEN v.ib[Len(v.ib) - p] ELSE 0)
  ELSE (IF -p <= Len(v.fb) THEN v.fb[-p] ELSE 0)

\* the IEEE-754 binary32 encoding of a number, round to nearest, ties to even;
\* NaN is stored as the quiet NaN 7FC00000
ToFloat32Bits(value) ==
  LET v == ToNumber(value)
      sign == IF v.neg THEN 1 ELSE 0
      one == {i \in 1..Len(v.fb) : v.fb[i] = 1}
      E == IF v.ib # <<>> THEN Len(v.ib) - 1
           ELSE -(CHOOSE i \in one : \A j \in one : i <= j)
      Ee == IF E < -126 THEN -126 ELSE E
      biased == IF E < -126 THEN 0 ELSE E + 127
      mant == [i \in 1..23 |-> BitAt(v, Ee - i)]
      guard == BitAt(v, Ee - 24)
      sticky == \E i \in 1..Len(v.fb) : -i < Ee - 24 /\ v.fb[i] = 1
      stickyInt == \E p \in 0..(Len(v.ib) - 1) : p < Ee - 24 /\ BitAt(v, p) = 1
      body == NatToBits(biased, 8) \o mant
      up == guard = 1 /\ (sticky \/ stickyInt \/ mant[23] = 1)
  IN CASE v.kind = "NaN" -> <<0>> \o NatToBits(255, 8) \o <<1>> \o Zeros(22)
       [] v.kind = "Infinity" -> <<sign>> \o NatToBits(255, 8) \o Zeros(23)
       [] v.ib = <<>> /\ v.fb = <<>> -> <<sign>> \o Zeros(31)
       [] E > 127 -> <<sign>> \o NatToBits(255, 8) \o Zeros(23)
       [] OTHER -> <<sign>> \o (IF up THEN Increment(body) ELSE body)

\* the number a binary32 bit pattern denotes
FromFloat32Bits(bits) ==
  LET neg == bits[1] = 1
      biased == BitsToNat(SubSeq(bits, 2, 9))
      mant == SubSeq(bits, 10, 32)
      sig == <<IF biased = 0 THEN 0 ELSE 1>> \o mant
      Ee == (IF biased = 0 THEN 1 ELSE biased) - 127
  IN IF biased = 255 THEN (IF mant = Zeros(23) THEN Infinity(neg) ELSE NaN)
     ELSE IF Ee >= 23 THEN Finite(neg, sig \o Zeros(Ee - 23), <<>>)
     ELSE IF Ee >= 0 THEN Finite(neg, SubSeq(sig, 1, Ee + 1), SubSeq(sig, Ee + 2, 24))
     ELSE Finite(neg, <<>>, Zeros(-Ee - 1) \o sig)

(***************************************************************************)
(* ArrayBuffer and DataView.  An ArrayBuffer is its identity and its       *)
(* bytes; a DataView is a window [byteOffset, byteOffset + byteLength) on  *)
(* one.  An accessor returns err = "RangeError" when the access leaves the *)
(* window, and then changes nothing.                                       *)
(***************************************************************************)
NewArrayBuffer(id, length) == [id |-> id, bytes |-> Zeros(length)]

NewDataView(buffer, byteOffset) ==
  [buffer |-> buffer, byteOffset |-> byteOffset,
   byteLength |-> Len(buffer.bytes) - byteOffset]

\* SetViewValue: raw holds the value's bytes, most significant first
SetViewValue(view, offset, raw, littleEndian) ==
  LET n == Len(raw)
      ordered == IF littleEndian THEN Reverse(raw) ELSE raw
      at == view.byteOffset + offset
  IN IF offset + n > view.byteLength THEN [err |-> "RangeError", view |-> view]
     ELSE [err |-> "",
           view |-> [view EXCEPT !.buffer.bytes =
                       [i \in 1..Len(@) |->
                          IF i > at /\ i <= at + n THEN ordered[i - at] ELSE @[i]]]]

\* GetViewValue as indexed reads that give 0 outside the window and never throw
GetViewValueUnchecked(view, offset, n, littleEndian) ==
  LET at == view.byteOffset + offset
      stored == [i \in 1..n |->
                   IF offset + i <= view.byteLength THEN view.buffer.bytes[at + i] ELSE 0]
  IN [err |-> "", raw |-> IF littleEndian THEN Reverse(stored) ELSE stored]

\* GetViewValue: the n bytes at offset, most significant first
GetViewValue(view, offset, n, littleEndian) ==
  LET at == view.byteOffset + offset
      stored == SubSeq(view.buffer.bytes, at + 1, at + n)
  IN IF offset + n > view.byteLength THEN [err |-> "RangeError", raw |-> <<>>]
     ELSE [err |-> "", raw |-> IF littleEndian THEN Reverse(stored) ELSE stored]

setUint8(view, offset, value) ==
  SetViewValue(view, offset, BytesOfBits(ToUintBits(value, 8)), FALSE)

setUint16(view, offset, value, littleEndian) ==
  SetViewValue(view, offset, BytesOfBits(ToUintBits(value, 16)), littleEndian)

setUint32(view, offset, value, littleEndian) ==
  SetViewValue(view, offset, BytesOfBits(ToUintBits(value, 32)), littleEndian)

setFloat32(view, offset, value, littleEndian) ==
  SetViewValue(view, offset, BytesOfBits(ToFloat32Bits(value)), littleEndian)

UintResult(got) ==
  [err |-> got.err,
   value |-> IF got.err = "" THEN Finite(FALSE, BitsOfBytes(got.raw), <<>>) ELSE Undefined]

getUint8(view, offset) == UintResult(GetViewValue(view, offset, 1, FALSE))

getUint16(view, offset, littleEndian) ==
  UintResult(GetViewValue(view, offset, 2, littleEndian))

getUint32(view, offset, littleEndian) ==
  UintResult(GetViewValue(view, offset, 4, littleEndian))

getFloat32(view, offset, littleEndian) ==
  LET got == GetViewValue(view, offset, 4, littleEndian)
  IN [err |-> got.err,
      value |-> IF got.err = "" THEN FromFloat32Bits(BitsOfBytes(got.raw)) ELSE Undefined]

\* view[setter](offset, value, littleEndian); setUint8 ignores its third argument
CallSetter(setter, view, offset, value, littleEndian) ==
  CASE setter = "setUint8" -> setUint8(view, offset, value)
    [] setter = "setUint16" -> setUint16(view, offset, value, littleEndian)
    [] setter = "setUint32" -> setUint32(view, offset, value, littleEndian)
    [] setter = "setFloat32" -> setFloat32(view, offset, value, littleEndian)

\* view[getter](offset, littleEndian); getUint8 ignores its second argument
CallGetter(getter, view, offset, littleEndian) ==
  CASE getter = "getUint8" -> getUint8(view, offset)
    [] getter = "getUint16" -> getUint16(view, offset, littleEndian)
    [] getter = "getUint32" -> getUint32(view, offset, littleEndian)
    [] getter = "getFloat32" -> getFloat32(view, offset, littleEndian)

(***************************************************************************)
(* Records (StructData): a function from some field names to numbers.      *)
(***************************************************************************)
FieldType == {"uint8", "uint16", "uint32", "float32"}

\* data.name, data[name]: undefined when the record has no such property
Prop(data, name) == IF name \in DOMAIN data THEN data[name] ELSE Undefined

\* obj[name] = value
WithProp(obj, name, value) ==
  [n \in (DOMAIN obj) \cup {name} |-> IF n = name THEN value ELSE obj[n]]

EmptyObject == [n \in {} |-> Undefined]

\* buffer instanceof DataView ? buffer : new DataView(buffer)
ReadView(arg) == IF arg.kind = "DataView" THEN arg.view ELSE NewDataView(arg.buffer, 0)

\* buffer instanceof DataView ? buffer : buffer instanceof ArrayBuffer ?
\*   new DataView(buffer) : new DataView(new ArrayBuffer(structSize))
WriteView(arg, structSize) ==
  CASE arg.kind = "DataView" -> arg.view
    [] arg.kind = "ArrayBuffer" -> NewDataView(arg.buffer, 0)
    [] OTHER -> NewDataView(NewArrayBuffer("fresh", structSize), 0)

(***************************************************************************)
(* BinaryStructBuilderV1                                                   *)
(***************************************************************************)
\* constructor(littleEndian = true); arg is "default" when the argument is
\* omitted, and "true" or "false" otherwise
NewBuilderV1(arg) ==
  [size |-> 0, fields |-> <<>>, fieldMap |-> <<>>,
   littleEndian |-> IF arg = "default" THEN TRUE ELSE arg = "true"]

AllocFieldV1(this, type) ==
  LET offset == this.size
      size == CASE type = "uint8" -> 1 [] type = "uint16" -> 2
                [] type = "uint32" -> 4 [] type = "float32" -> 4
      getter == CASE type = "uint8" -> "getUint8" [] type = "uint16" -> "getUint16"
                  [] type = "uint32" -> "getUint32" [] type = "float32" -> "getFloat32"
      setter == CASE type = "uint8" -> "setUint8" [] type = "uint16" -> "setUint16"
                  [] type = "uint32" -> "setUint32" [] type = "float32" -> "setFloat32"
  IN [this |-> [this EXCEPT !.size = @ + size],
      field |-> [offset |-> offset, size |-> size, getter |-> getter, setter |-> setter]]

\* Map.prototype.set: a new key is appended, a known key keeps its place
MapSet(map, key, value) ==
  IF \E i \in 1..Len(map) : map[i].key = key
  THEN [i \in 1..Len(map) |->
          IF map[i].key = key THEN [key |-> key, value |-> value] ELSE map[i]]
  ELSE Append(map, [key |-> key, value |-> value])

AddFieldV1(this, name, type) ==
  LET a == AllocFieldV1(this, type)
      fields == Append(a.this.fields, a.field)
  IN [a.this EXCEPT !.fields = fields,
                    !.fieldMap = MapSet(@, name, Len(fields) - 1)]

\* build(): the two function bodies are text, fixed when build() runs
BuildV1(this) ==
  [built |-> TRUE,
   size |-> this.size,
   readFn |-> [i \in 1..Len(this.fieldMap) |->
                 LET field == this.fields[this.fieldMap[i].value + 1]
                 IN [name |-> this.fieldMap[i].key, getter |-> field.getter,
                     offset |-> field.offset, littleEndian |-> this.littleEndian]],
   writeFn |-> [i \in 1..Len(this.fieldMap) |->
                  LET field == this.fields[this.fieldMap[i].value + 1]
                  IN [name |-> this.fieldMap[i].key, setter |-> field.setter,
                      offset |-> field.offset, littleEndian |-> this.littleEndian]],
   structSize |-> this.size]

NoStructV1 ==
  [built |-> FALSE, size |-> 0, readFn |-> <<>>, writeFn |-> <<>>, structSize |-> 0]

\* the object literal of readFn, property by property
RECURSIVE ReadPropsV1(_, _, _)
ReadPropsV1(props, view, obj) ==
  IF props = <<>> THEN [err |-> "", value |-> obj]
  ELSE LET p == Head(props)
           got == CallGetter(p.getter, view, p.offset, p.littleEndian)
       IN IF got.err # "" THEN [err |-> got.err, value |-> EmptyObject]
          ELSE ReadPropsV1(Tail(props), view, WithProp(obj, p.name, got.value))

ReadV1(struct, arg) == ReadPropsV1(struct.readFn, ReadView(arg), EmptyObject)

\* the statements of writeFn, one after the other
RECURSIVE WriteStmtsV1(_, _, _)
WriteStmtsV1(stmts, data, view) ==
  IF stmts = <<>> THEN [err |-> "", view |-> view]
  ELSE LET s == Head(stmts)
           done == CallSetter(s.setter, view, s.offset, Prop(data, s.name), s.littleEndian)
       IN IF done.err # "" THEN done ELSE WriteStmtsV1(Tail(stmts), data, done.view)

\* err = "": the call returned buffer; otherwise it threw, and buffer is what
\* the call left in the buffer it wrote to
WriteV1(struct, data, arg) ==
  LET done == WriteStmtsV1(struct.writeFn, data, WriteView(arg, struct.structSize))
  IN [err |-> done.err, buffer |-> done.view.buffer]

(***************************************************************************)
(* BinaryStructBuilderV2                                                   *)
(***************************************************************************)
NewBuilderV2(arg) ==
  [size |-> 0, fields |-> <<>>,
   littleEndian |-> IF arg = "default" THEN TRUE ELSE arg = "true"]

\* AllocFieldV2 with each offset aligned to the field's width
AllocFieldV2Aligned(this, name, type) ==
  LET size == CASE type = "uint8" -> 1 [] type = "uint16" -> 2
                [] type = "uint32" -> 4 [] type = "float32" -> 4
      offset == ((this.size + size - 1) \div size) * size
  IN [this EXCEPT !.size = offset + size,
                  !.fields = Append(@, [name |-> name, offset |-> offset,
                                        size |-> size, type |-> type])]

\* the closures read and write of a field are kept as the type they were chosen by
AllocFieldV2(this, name, type) ==
  LET offset == this.size
      size == CASE type = "uint8" -> 1 [] type = "uint16" -> 2
                [] type = "uint32" -> 4 [] type = "float32" -> 4
  IN [this EXCEPT !.size = @ + size,
                  !.fields = Append(@, [name |-> name, offset |-> offset,
                                        size |-> size, type |-> type])]

AddFieldV2(this, name, type) == AllocFieldV2(this, name, type)

\* FieldReadV2 with a uint16 closure that leaves out this.littleEndian
FieldReadV2NoOrder16(this, field, view) ==
  CASE field.type = "uint8" -> getUint8(view, field.offset)
    [] field.type = "uint16" -> getUint16(view, field.offset, FALSE)
    [] field.type = "uint32" -> getUint32(view, field.offset, this.littleEndian)
    [] field.type = "float32" -> getFloat32(view, field.offset, this.littleEndian)

\* field.read(view): the closure reads this.littleEndian when it is called
FieldReadV2(this, field, view) ==
  CASE field.type = "uint8" -> getUint8(view, field.offset)
    [] field.type = "uint16" -> getUint16(view, field.offset, this.littleEndian)
    [] field.type = "uint32" -> getUint32(view, field.offset, this.littleEndian)
    [] field.type = "float32" -> getFloat32(view, field.offset, this.littleEndian)

\* FieldWriteV2 with a uint32 closure that leaves out this.littleEndian
FieldWriteV2NoOrder32(this, field, view, value) ==
  CASE field.type = "uint8" -> setUint8(view, field.offset, value)
    [] field.type = "uint16" -> setUint16(view, field.offset, value, this.littleEndian)
    [] field.type = "uint32" -> setUint32(view, field.offset, value, FALSE)
    [] field.type = "float32" -> setFloat32(view, field.offset, value, this.littleEndian)

\* field.write(view, value)
FieldWriteV2(this, field, view, value) ==
  CASE field.type = "uint8" -> setUint8(view, field.offset, value)
    [] field.type = "uint16" -> setUint16(view, field.offset, value, this.littleEndian)
    [] field.type = "uint32" -> setUint32(view, field.offset, value, this.littleEndian)
    [] field.type = "float32" -> setFloat32(view, field.offset, value, this.littleEndian)

\* build(): structSize is copied; fields is the builder's own array, so the
\* codec's loops see this.fields as it is when they run
BuildV2(this) == [built |-> TRUE, size |-> this.size, structSize |-> this.size]

NoStructV2 == [built |-> FALSE, size |-> 0, structSize |-> 0]

\* the array the codec's closures hold: the builder's
CodecFieldsV2(this) == this.fields

RECURSIVE ReadLoopV2(_, _, _, _)
ReadLoopV2(this, fields, view, result) ==
  IF fields = <<>> THEN [err |-> "", value |-> result]
  ELSE LET field == Head(fields)
           got == FieldReadV2(this, field, view)
       IN IF got.err # "" THEN [err |-> got.err, value |-> EmptyObject]
          ELSE ReadLoopV2(this, Tail(fields), view, WithProp(result, field.name, got.value))

ReadV2(this, struct, arg) ==
  ReadLoopV2(this, CodecFieldsV2(this), ReadView(arg), EmptyObject)

RECURSIVE WriteLoopV2(_, _, _, _)
WriteLoopV2(this, fields, data, view) ==
  IF fields = <<>> THEN [err |-> "", view |-> view]
  ELSE LET field == Head(fields)
           done == FieldWriteV2(this, field, view, Prop(data, field.name))
       IN IF done.err # "" THEN done ELSE WriteLoopV2(this, Tail(fields), data, done.view)

WriteV2(this, struct, data, arg) ==
  LET done == WriteLoopV2(this, CodecFieldsV2(this), data, WriteView(arg, struct.structSize))
  IN [err |-> done.err, buffer |-> done.view.buffer]

(***************************************************************************)
(* The program: builders of both classes, one per constructor argument,    *)
(* receive the same calls.  structV1 and structV2 are the codecs the last  *)
(* build() returned; call is the call being made and out what it gives     *)
(* back from each builder or codec, until the call returns.  write and     *)
(* read change nothing of a builder or codec, so the calls are made one at *)
(* a time.                                                                 *)
(***************************************************************************)
VARIABLES builderV1, builderV2, structV1, structV2, call, out, atBuild

vars == <<builderV1, builderV2, structV1, structV2, call, out, atBuild>>

\* new Builder() and new Builder(false)
CtorArgs == {"default", "false"}

Impls == {"V1", "V2"}

MaxFields == 2

Names == {"id", "x"}

\* the benchmark's field list, in the order of Object.entries
ComplexStruct ==
  << [name |-> "id", type |-> "uint32"], [name |-> "x", type |-> "float32"],
     [name |-> "y", type |-> "float32"], [name |-> "z", type |-> "float32"],
     [name |-> "flags", type |-> "uint16"], [name |-> "type", type |-> "uint8"],
     [name |-> "reserved", type |-> "uint8"] >>

Integer(n) == Finite(FALSE, NatToBits(n, 31), <<>>)

\* the benchmark's record
data ==
  [id |-> Integer(1234), x |-> Finite(FALSE, <<1>>, <<1>>), y |-> Finite(FALSE, <<1, 0>>, <<1>>),
   z |-> Finite(FALSE, <<1, 1>>, <<1>>), flags |-> Integer(43690), type |-> Integer(255),
   reserved |-> Integer(0)]

\* 255, 0x1234, 0x89ABCDEF, 2^32 + 0x1234, 1.5
Values ==
  { Integer(255), Integer(4660), Finite(FALSE, BitsOfBytes(<<137, 171, 205, 239>>), <<>>),
    Finite(FALSE, BitsOfBytes(<<1, 0, 0, 18, 52>>), <<>>), Finite(FALSE, <<1>>, <<1>>) }

Records ==
  UNION {[D -> Values] : D \in SUBSET Names}
    \cup {data, [n \in (DOMAIN data) \ {"type"} |-> data[n]]}

\* the records written into a caller's buffer: the benchmark's, 0x1234 and -1
TargetRecords ==
  {data} \cup {[n \in Names |-> v] : v \in {Integer(4660), Finite(TRUE, <<1>>, <<>>)}}

MaxBuffer == 9

Lengths == {0, 3, MaxBuffer}

\* a caller's buffer of the given length, none of its bytes 0
CallerBuffer(length) == [id |-> "caller", bytes |-> [i \in 1..length |-> 160 + i]]

NoBuffer == [id |-> "none", bytes |-> <<>>]

NoArg == [kind |-> "undefined", buffer |-> NoBuffer, view |-> NewDataView(NoBuffer, 0)]

BufferArg(buffer) ==
  [kind |-> "ArrayBuffer", buffer |-> buffer, view |-> NewDataView(NoBuffer, 0)]

ViewArg(buffer, byteOffset) ==
  [kind |-> "DataView", buffer |-> NoBuffer, view |-> NewDataView(buffer, byteOffset)]

\* ArrayBuffers, and DataViews that start at byte 1 of a buffer one byte longer
BufferArgs ==
  {BufferArg(CallerBuffer(n)) : n \in Lengths}
    \cup {ViewArg(CallerBuffer(n + 1), 1) : n \in Lengths}

Result(err, buffer, value) == [err |-> err, buffer |-> buffer, value |-> value]

NoCall ==
  [op |-> "none", name |-> "", type |-> "", data |-> EmptyObject, arg |-> NoArg]

Init ==
  /\ builderV1 = [k \in CtorArgs |-> NewBuilderV1(k)]
  /\ builderV2 = [k \in CtorArgs |-> NewBuilderV2(k)]
  /\ structV1 = [k \in CtorArgs |-> NoStructV1]
  /\ structV2 = [k \in CtorArgs |-> NoStructV2]
  /\ call = NoCall
  /\ out = [c \in Impls \X CtorArgs |-> Result("", NoBuffer, EmptyObject)]
  /\ atBuild = <<>>

\* the fields declared so far, as the calls gave them
Declared == [i \in 1..Len(builderV2["default"].fields) |->
               [name |-> builderV2["default"].fields[i].name,
                type |-> builderV2["default"].fields[i].type]]

DoAddField(name, type) ==
  /\ builderV1' = [k \in CtorArgs |-> AddFieldV1(builderV1[k], name, type)]
  /\ builderV2' = [k \in CtorArgs |-> AddFieldV2(builderV2[k], name, type)]
  /\ call' = [NoCall EXCEPT !.op = "addField", !.name = name, !.type = type]
  /\ out' = [c \in Impls \X CtorArgs |-> Result("", NoBuffer, EmptyObject)]
  /\ UNCHANGED <<structV1, structV2, atBuild>>

\* builder.addField(name, type)
AddField ==
  \E name \in Names, type \in FieldType :
    /\ call.op = "none"
    /\ Len(Declared) < MaxFields
    /\ DoAddField(name, type)

\* one step of the reduce over Object.entries(ComplexStruct)
AddNextComplexField ==
  /\ call.op = "none"
  /\ Len(Declared) < Len(ComplexStruct)
  /\ Declared = SubSeq(ComplexStruct, 1, Len(Declared))
  /\ LET next == ComplexStruct[Len(Declared) + 1]
     IN DoAddField(next.name, next.type)

\* builder.build()
Build ==
  /\ call.op = "none"
  /\ structV1' = [k \in CtorArgs |-> BuildV1(builderV1[k])]
  /\ structV2' = [k \in CtorArgs |-> BuildV2(builderV2[k])]
  /\ atBuild' = builderV2["default"].fields
  /\ call' = [NoCall EXCEPT !.op = "build"]
  /\ out' = [c \in Impls \X CtorArgs |-> Result("", NoBuffer, EmptyObject)]
  /\ UNCHANGED <<builderV1, builderV2>>

Built == \A k \in CtorArgs : structV1[k].built /\ structV2[k].built

DoWrite(r, target) ==
  /\ call.op = "none"
  /\ Built
  /\ call' = [NoCall EXCEPT !.op = "write", !.data = r, !.arg = target]
  /\ out' = [c \in Impls \X CtorArgs |->
               LET w == IF c[1] = "V1" THEN WriteV1(structV1[c[2]], r, target)
                        ELSE WriteV2(builderV2[c[2]], structV2[c[2]], r, target)
               IN Result(w.err, w.buffer, EmptyObject)]
  /\ UNCHANGED <<builderV1, builderV2, structV1, structV2, atBuild>>

\* struct.write(data)
Write == \E r \in Records : DoWrite(r, NoArg)

\* struct.write(data, target)
WriteInto == \E r \in TargetRecords, target \in BufferArgs : DoWrite(r, target)

ReadWith(c, arg) ==
  IF c[1] = "V1" THEN ReadV1(structV1[c[2]], arg)
  ELSE ReadV2(builderV2[c[2]], structV2[c[2]], arg)

\* struct.read(buffer) on the buffer the codec's own write just returned
ReadBack ==
  /\ call.op = "write"
  /\ call' = [call EXCEPT !.op = "readBack"]
  /\ out' = [c \in Impls \X CtorArgs |->
               IF out[c].err # "" THEN Result("not called", out[c].buffer, EmptyObject)
               ELSE LET got == ReadWith(c, BufferArg(out[c].buffer))
                    IN Result(got.err, out[c].buffer, got.value)]
  /\ UNCHANGED <<builderV1, builderV2, structV1, structV2, atBuild>>

\* struct.read(buffer) on a caller's buffer or view
Read ==
  \E source \in BufferArgs :
    /\ call.op = "none"
    /\ Built
    /\ call' = [NoCall EXCEPT !.op = "read", !.arg = source]
    /\ out' = [c \in Impls \X CtorArgs |->
                 LET got == ReadWith(c, source)
                 IN Result(got.err, NoBuffer, got.value)]
    /\ UNCHANGED <<builderV1, builderV2, structV1, structV2, atBuild>>

\* the call returns
Return ==
  /\ call.op # "none"
  /\ call' = NoCall
  /\ out' = [c \in Impls \X CtorArgs |-> Result("", NoBuffer, EmptyObject)]
  /\ UNCHANGED <<builderV1, builderV2, structV1, structV2, atBuild>>

Next ==
  \/ AddField \/ AddNextComplexField \/ Build
  \/ Write \/ WriteInto \/ ReadBack \/ Read \/ Return

Spec == Init /\ [][Next]_vars

(***************************************************************************)
(* What the properties are stated with.                                    *)
(***************************************************************************)
Codecs == Impls \X CtorArgs

\* the widths the specification gives: uint8=1, uint16=2, uint32=4, float32=4
WidthOf(type) ==
  CASE type = "uint8" -> 1 [] type = "uint16" -> 2 [] type = "uint32" -> 4
    [] type = "float32" -> 4

RECURSIVE SumWidths(_, _)
SumWidths(decls, n) == IF n = 0 THEN 0 ELSE SumWidths(decls, n - 1) + WidthOf(decls[n].type)

UniqueNames(decls) ==
  \A i, j \in 1..Len(decls) : decls[i].name = decls[j].name => i = j

\* no addField since the last build(): the codecs are used as they were built
AsBuilt == Built /\ Len(Declared) = Len(atBuild)

IsInteger(v) == v.kind = "number" /\ v.fb = <<>>

\* v is an integer of [0, 2^(8 * width))
InUintRange(v, width) == IsInteger(v) /\ ~v.neg /\ Len(v.ib) <= 8 * width

\* v is a float32 value: finite, at most 24 significant binary digits, in range
IsFloat32(v) ==
  /\ v.kind = "number"
  /\ Len(StripLeading(StripTrailing(v.ib \o v.fb))) <= 24
  /\ Len(v.ib) <= 128
  /\ Len(v.fb) <= 149

InRange(v, type) ==
  IF type = "float32" THEN IsFloat32(v) ELSE InUintRange(v, WidthOf(type))

\* the fields a codec reads and writes, as [name, type, offset]
CodecFields(c) ==
  IF c[1] = "V1"
  THEN [i \in 1..Len(structV1[c[2]].writeFn) |->
          LET st == structV1[c[2]].writeFn[i]
          IN [name |-> st.name, offset |-> st.offset,
              type |-> CASE st.setter = "setUint8" -> "uint8"
                         [] st.setter = "setUint16" -> "uint16"
                         [] st.setter = "setUint32" -> "uint32"
                         [] st.setter = "setFloat32" -> "float32"]]
  ELSE [i \in 1..Len(CodecFieldsV2(builderV2[c[2]])) |->
          LET f == CodecFieldsV2(builderV2[c[2]])[i]
          IN [name |-> f.name, offset |-> f.offset, type |-> f.type]]

CodecSize(c) == IF c[1] = "V1" THEN structV1[c[2]].size ELSE structV2[c[2]].size

\* bytes [from, from + n) of a byte sequence, counted from 0
Range(bytes, from, n) == SubSeq(bytes, from + 1, from + n)

\* the byte offsets field i of a builder occupies
FieldBytes(this, i) ==
  this.fields[i].offset .. (this.fields[i].offset + this.fields[i].size - 1)

LayoutOf(this) ==
  /\ this.size = SumWidths(Declared, Len(Declared))
  /\ Len(this.fields) = Len(Declared)
  /\ \A i \in 1..Len(Declared) :
       /\ this.fields[i].offset = SumWidths(Declared, i - 1)
       /\ this.fields[i].size = WidthOf(Declared[i].type)
  /\ \A i, j \in 1..Len(Declared) :
       i # j => FieldBytes(this, i) \cap FieldBytes(this, j) = {}
  /\ UNION {FieldBytes(this, i) : i \in 1..Len(Declared)} = 0..(this.size - 1)

LayoutSums ==
  /\ \A k \in CtorArgs : LayoutOf(builderV1[k]) /\ LayoutOf(builderV2[k])
  /\ call.op = "build" =>
       \A c \in Codecs : CodecSize(c) = SumWidths(Declared, Len(Declared))

\* the size build() reports for the field list of ComplexStruct
ComplexStructSizeIs(n) ==
  (call.op = "build" /\ Declared = ComplexStruct) => \A c \in Codecs : CodecSize(c) = n

(***************************************************************************)
(* C2  Layout determinism.  After any sequence of addField calls on a V1   *)
(* or V2 builder, the builder's size is the sum of the widths of the       *)
(* declared fields and the offset of field i is the sum of the widths of   *)
(* the fields declared before it, so the byte ranges are consecutive from  *)
(* 0 and pairwise disjoint, and the size build() reports is that total.    *)
(***************************************************************************)
\* C2 as stated: with 18 bytes for the ComplexStruct field list
LayoutDeterminism18 == LayoutSums /\ ComplexStructSizeIs(18)

\* C2 as amended: the layout sums, and 20 bytes for the ComplexStruct field list
\* (4 + 4 + 4 + 4 + 2 + 1 + 1)
LayoutDeterminism == LayoutSums /\ ComplexStructSizeIs(20)

\* build() has just returned the codecs of the ComplexStruct field list
LayoutDeterminismWitness ==
  /\ call.op = "build"
  /\ Declared = ComplexStruct
  /\ \A c \in Codecs : CodecSize(c) = 20
  /\ builderV1["default"].fields[7].offset = 19
  /\ builderV2["default"].fields[7].offset = 19

(***************************************************************************)
(* C1  Round trip.  For a layout declared with unique names and a codec    *)
(* used as built, and a record that has, for every declared field, a value *)
(* in the range of the field's type (an integer of [0, 2^(8*width)), or a  *)
(* float32 value), read(write(r)) succeeds and returns r's value for every *)
(* field and nothing else, for the V1 and the V2 codec and either byte     *)
(* order.                                                                  *)
(***************************************************************************)
RoundTrip ==
  ( /\ call.op = "readBack"
    /\ call.arg.kind = "undefined"
    /\ AsBuilt
    /\ UniqueNames(Declared)
    /\ \A i \in 1..Len(Declared) :
         /\ Declared[i].name \in DOMAIN call.data
         /\ InRange(call.data[Declared[i].name], Declared[i].type) )
  => \A c \in Codecs :
       /\ out[c].err = ""
       /\ DOMAIN out[c].value = {Declared[i].name : i \in 1..Len(Declared)}
       /\ \A n \in DOMAIN out[c].value : out[c].value[n] = call.data[n]

\* the benchmark: the ComplexStruct codecs have written and read back data
RoundTripWitness ==
  /\ call.op = "readBack"
  /\ call.arg.kind = "undefined"
  /\ AsBuilt
  /\ Declared = ComplexStruct
  /\ call.data = data
  /\ \A c \in Codecs : out[c].err = "" /\ out[c].value = data

\* the bytes an argument offers: the view's window, or the whole buffer
WindowLength(arg) ==
  IF arg.kind = "DataView" THEN arg.view.byteLength ELSE Len(arg.buffer.bytes)

\* where that window starts in its buffer
WindowBase(arg) == IF arg.kind = "DataView" THEN arg.view.byteOffset ELSE 0

(***************************************************************************)
(* C6  Bounds rejection.  read(buf) with a buffer or view shorter than the *)
(* codec's size throws a RangeError and returns no record, partial or      *)
(* complete.                                                               *)
(***************************************************************************)
BoundsRejection ==
  call.op = "read" =>
    \A c \in Codecs :
      WindowLength(call.arg) < CodecSize(c) =>
        out[c].err = "RangeError" /\ out[c].value = EmptyObject

\* a read of 3 bytes by codecs of two fields whose first field fits
BoundsRejectionWitness ==
  /\ call.op = "read"
  /\ AsBuilt
  /\ Len(Declared) = 2
  /\ WidthOf(Declared[1].type) <= WindowLength(call.arg)
  /\ \A c \in Codecs :
       WindowLength(call.arg) < CodecSize(c) /\ out[c].err = "RangeError"

(***************************************************************************)
(* C8  Byte-order sensitivity.  A builder constructed without an argument  *)
(* is little-endian.  When the little-endian and the big-endian codec of   *)
(* the same class write the same record, every uint16, uint32 or float32   *)
(* field they write holds in one buffer the reverse of its bytes in the    *)
(* other, and every uint8 field holds the same byte in both.               *)
(***************************************************************************)
ByteOrderSensitivity ==
  /\ \A k \in CtorArgs :
       /\ builderV1[k].littleEndian = (k = "default")
       /\ builderV2[k].littleEndian = (k = "default")
  /\ call.op = "write" =>
       \A impl \in Impls :
         LET le == out[<<impl, "default">>]
             be == out[<<impl, "false">>]
             fields == CodecFields(<<impl, "default">>)
             base == WindowBase(call.arg)
         IN (le.err = "" /\ be.err = "") =>
              /\ fields = CodecFields(<<impl, "false">>)
              /\ \A i \in 1..Len(fields) :
                   LET w == WidthOf(fields[i].type)
                       inLe == Range(le.buffer.bytes, base + fields[i].offset, w)
                       inBe == Range(be.buffer.bytes, base + fields[i].offset, w)
                   IN inLe = Reverse(inBe) /\ (w = 1 => inLe = inBe)

\* a uint16 and a uint32 field written with bytes that are no palindromes
ByteOrderSensitivityWitness ==
  /\ call.op = "write"
  /\ AsBuilt
  /\ Declared = << [name |-> "id", type |-> "uint16"], [name |-> "x", type |-> "uint32"] >>
  /\ \A impl \in Impls :
       /\ out[<<impl, "default">>].err = ""
       /\ out[<<impl, "default">>].buffer.bytes = <<52, 18, 239, 205, 171, 137>>
       /\ out[<<impl, "false">>].buffer.bytes = <<18, 52, 137, 171, 205, 239>>

\* the binary digit of weight 2^p of a digit sequence
Digit(a, p) == IF p < Len(a) THEN a[Len(a) - p] ELSE 0

\* the low w binary digits of a + b, least significant first
RECURSIVE LowSum(_, _, _, _, _)
LowSum(a, b, p, carry, w) ==
  IF p = w THEN <<>>
  ELSE LET t == Digit(a, p) + Digit(b, p) + carry
       IN <<t % 2>> \o LowSum(a, b, p + 1, t \div 2, w)

\* x is the residue of the integer v modulo 2^w
IsResidue(x, v, w) ==
  /\ InUintRange(x, w \div 8)
  /\ IF v.neg THEN LowSum(x.ib, v.ib, 0, 0, w) = Zeros(w)
     ELSE \A p \in 0..(w - 1) : Digit(x.ib, p) = Digit(v.ib, p)
  /\ (Len(v.ib) <= 30 /\ w <= 16) =>
       BitsToNat(x.ib) = ((IF v.neg THEN -1 ELSE 1) * BitsToNat(v.ib)) % (2 ^ w)

(***************************************************************************)
(* C9  Truncation on write.  write(r) with no target never throws, what    *)
(* the values are.  Every integer field a codec (used as built) writes     *)
(* holds, for an integer value v, the w-byte encoding of v modulo 2^(8w);  *)
(* read(write(r)) returns that residue for the field, and returns the      *)
(* exact value of every field whose value is in the range of its type,     *)
(* whatever the values of the other fields.                                *)
(***************************************************************************)
TruncationOnWrite ==
  /\ (call.op = "write" /\ call.arg.kind = "undefined" /\ AsBuilt) =>
       \A c \in Codecs : out[c].err = ""
  /\ (call.op = "readBack" /\ AsBuilt) =>
       \A c \in Codecs :
         out[c].err = "" =>
           LET fields == CodecFields(c)
               base == WindowBase(call.arg)
           IN \A i \in 1..Len(fields) :
                LET f == fields[i]
                    v == Prop(call.data, f.name)
                    w == WidthOf(f.type)
                    stored == Range(out[c].buffer.bytes, base + f.offset, w)
                    raw == IF c[2] = "default" THEN Reverse(stored) ELSE stored
                    last == \A j \in (i + 1)..Len(fields) : fields[j].name # f.name
                    \* read() starts at byte 0 of the buffer write() returned
                    readable == last /\ base = 0
                IN /\ (f.type # "float32" /\ IsInteger(v)) =>
                        /\ IsResidue(Finite(FALSE, BitsOfBytes(raw), <<>>), v, 8 * w)
                        /\ readable => IsResidue(out[c].value[f.name], v, 8 * w)
                   /\ (readable /\ InRange(v, f.type)) => out[c].value[f.name] = v

\* a uint8 field given 0x1234 reads back 0x34 beside a uint16 field that
\* reads back its 0x1234
TruncationOnWriteWitness ==
  /\ call.op = "readBack"
  /\ AsBuilt
  /\ Declared = << [name |-> "id", type |-> "uint8"], [name |-> "x", type |-> "uint16"] >>
  /\ call.data = [id |-> Integer(4660), x |-> Integer(4660)]
  /\ \A c \in Codecs :
       /\ out[c].err = ""
       /\ out[c].value = [id |-> Integer(52), x |-> Integer(4660)]

(***************************************************************************)
(* C4  Duplicate-name rejection.  addField with a name the builder already *)
(* holds fails and leaves the builder's fields and size as they were.      *)
(***************************************************************************)
DuplicateNameRejected ==
  [][ (call'.op = "addField"
         /\ \E i \in 1..Len(Declared) : Declared[i].name = call'.name)
      => /\ \A c \in Codecs : out'[c].err # ""
         /\ builderV1' = builderV1
         /\ builderV2' = builderV2 ]_vars

(***************************************************************************)
(* C5  Missing-field rejection.  write(r) with a record that lacks a value *)
(* for a field of the codec throws, and returns no buffer.                 *)
(***************************************************************************)
MissingFieldRejected ==
  call.op = "write" =>
    \A c \in Codecs :
      (\E i \in 1..Len(CodecFields(c)) : CodecFields(c)[i].name \notin DOMAIN call.data)
        => out[c].err # ""

(***************************************************************************)
(* C7  Build isolation.  A codec keeps the size, the fields its read       *)
(* returns and the byte offsets its write touches that it had when build() *)
(* returned it, whatever addField calls follow.                            *)
(***************************************************************************)
BuildIsolation ==
  Built =>
    \A c \in Codecs :
      /\ CodecSize(c) = SumWidths(atBuild, Len(atBuild))
      /\ {CodecFields(c)[i].name : i \in 1..Len(CodecFields(c))}
           = {atBuild[i].name : i \in 1..Len(atBuild)}
      /\ \A i \in 1..Len(CodecFields(c)) :
           CodecFields(c)[i].offset + WidthOf(CodecFields(c)[i].type) <= CodecSize(c)
      /\ (call.op = "read" /\ out[c].err = "") =>
           DOMAIN out[c].value = {atBuild[i].name : i \in 1..Len(atBuild)}

(***************************************************************************)
(* C3  Strategy equivalence.  The V1 and the V2 codec built (and used as   *)
(* built) from the same addField calls and byte order report the same      *)
(* size, write the same bytes for every record, and read the same record   *)
(* from every buffer of at least size bytes.                               *)
(***************************************************************************)
StrategyEquivalence ==
  AsBuilt =>
    \A k \in CtorArgs :
      LET a == out[<<"V1", k>>]
          b == out[<<"V2", k>>]
      IN /\ structV1[k].size = structV2[k].size
         /\ call.op = "write" =>
              a.err = b.err /\ (a.err = "" => a.buffer = b.buffer)
         /\ (call.op = "read" /\ WindowLength(call.arg) >= structV1[k].size) =>
              a.err = b.err /\ a.value = b.value

\* write(r) of codec c
PlainWrite(c, r) ==
  IF c[1] = "V1" THEN WriteV1(structV1[c[2]], r, NoArg)
  ELSE WriteV2(builderV2[c[2]], structV2[c[2]], r, NoArg)

\* the caller's buffer before the call
TargetBuffer(arg) == IF arg.kind = "DataView" THEN arg.view.buffer ELSE arg.buffer

(***************************************************************************)
(* C10  Encode target effect.  With a codec used as built, write(r)        *)
(* returns a fresh buffer of size bytes; write(r, target) with a target of *)
(* at least size bytes returns the target's buffer, whose bytes [0, size)  *)
(* of the target are those of write(r) and whose other bytes are as they   *)
(* were.                                                                   *)
(***************************************************************************)
EncodeTargetEffect ==
  (call.op = "write" /\ AsBuilt) =>
    \A c \in Codecs :
      /\ call.arg.kind = "undefined" =>
           /\ out[c].err = ""
           /\ out[c].buffer.id = "fresh"
           /\ Len(out[c].buffer.bytes) = CodecSize(c)
      /\ (call.arg.kind # "undefined" /\ WindowLength(call.arg) >= CodecSize(c)) =>
           LET before == TargetBuffer(call.arg).bytes
               after == out[c].buffer.bytes
               plain == PlainWrite(c, call.data).buffer.bytes
               base == WindowBase(call.arg)
           IN /\ out[c].err = ""
              /\ out[c].buffer.id = "caller"
              /\ Len(after) = Len(before)
              /\ \A i \in 1..Len(after) :
                   after[i] = IF i > base /\ i <= base + CodecSize(c)
                              THEN plain[i - base] ELSE before[i]

====
